---------------------------- MODULE Spec2Model ----------------------------
(* A model of the Loopover board simulator (src/loopover.go): the Board,   *)
(* its rotation engine MakeMove, the Programmer's Notation parser          *)
(* ParseMove and the two shuffles.  Definitions keep the names of the Go   *)
(* source.                                                                 *)
EXTENDS Integers, Sequences, FiniteSets, TLC

VARIABLES
    board,   \* the Board: board[x][y], x a column, y a row; NilBoard before NewBoard succeeds
    prev,    \* the board the last MakeMove call or command of the game started from; NilBoard after any other call
    status,  \* "ok", or "panic" once a call aborted with an index out of range
    pc,      \* "idle" between calls, "Shuffle" or "FastShuffle" inside that method's loop
    sh,      \* the locals of the running shuffle: iterations, moves (Shuffle), tile (FastShuffle)
    last,    \* the last call: its name, arguments and what it returned
    n        \* main's count of the moves done so far

vars == <<board, prev, status, pc, sh, last, n>>

---------------------------------------------------------------------------
(* Machine integers.  Go's int is 64 bits wide; the model keeps two's      *)
(* complement arithmetic at a width of IntBits bits.                       *)

IntBits == 4

MinInt == -(2 ^ (IntBits - 1))

MaxInt == 2 ^ (IntBits - 1) - 1

\* Two's complement wrap-around of a mathematical integer.
Wrap(v) == ((v - MinInt) % (2 ^ IntBits)) + MinInt

\* The absolute value in the integers, as the specification means it.
MathAbs(a) == IF a < 0 THEN -a ELSE a

\* Abs (src/loopover.go:301): -a wraps, so Abs(MinInt) = MinInt.
Abs(a) == IF a > 0 THEN a ELSE Wrap(-a)

---------------------------------------------------------------------------
(* Strings.  A string is a sequence of runes, each written as a TLA+       *)
(* string of one character; its bytes are what len() and the slices see.   *)

DigitChars == <<"0", "1", "2", "3", "4", "5", "6", "7", "8", "9">>

IsDigit(c) == \E d \in 1..10 : DigitChars[d] = c

DigitVal(c) == (CHOOSE d \in 1..10 : DigitChars[d] = c) - 1

\* unicode.IsLetter on the runes the inputs are written with.
IsLetter(c) == c \in {"r", "R", "c", "C", "x", "X", "é"}

\* unicode.ToLower on those runes.
ToLower(c) == CASE c = "R" -> "r"
                [] c = "C" -> "c"
                [] c = "X" -> "x"
                [] OTHER -> c

\* The length of a rune's UTF-8 encoding.
Utf8Len(c) == CASE c = "€" -> 3
                [] c = "é" -> 2
                [] OTHER -> 1

\* The bytes of one rune: an ASCII rune is its own byte, a longer rune a
\* lead byte and continuation bytes, none of which is an ASCII byte.
RuneBytes(c) == IF Utf8Len(c) = 1 THEN <<c>>
                ELSE [k \in 1..Utf8Len(c) |-> IF k = 1 THEN "lead" ELSE "cont"]

RECURSIVE Bytes(_)
Bytes(s) == IF s = <<>> THEN <<>> ELSE RuneBytes(Head(s)) \o Bytes(Tail(s))

\* `for i, c := range input`: the byte offset of the first letter, or -1.
RECURSIVE FirstLetter(_, _, _)
FirstLetter(s, k, off) ==
    IF k > Len(s) THEN -1
    ELSE IF IsLetter(s[k]) THEN off
    ELSE FirstLetter(s, k + 1, off + Utf8Len(s[k]))

\* The decimal value of a digit string, cut off once it passes every int.
RECURSIVE Magnitude(_, _)
Magnitude(ds, acc) ==
    IF ds = <<>> THEN acc
    ELSE LET sum == acc * 10 + DigitVal(Head(ds))
         IN  Magnitude(Tail(ds), IF sum > MaxInt + 1 THEN MaxInt + 2 ELSE sum)

\* strconv.Atoi: an optional sign, one or more digits, a value that fits int;
\* beside a syntax error it returns 0, beside a range error the nearest int.
Atoi(bs) ==
    LET signed == bs # <<>> /\ Head(bs) \in {"-", "+"}
        ds     == IF signed THEN Tail(bs) ELSE bs
        mag    == Magnitude(ds, 0)
        neg    == signed /\ Head(bs) = "-"
    IN  IF ds = <<>> \/ \E k \in 1..Len(ds) : ~IsDigit(ds[k])
          THEN [ok |-> FALSE, val |-> 0]
        ELSE IF (neg /\ mag > MaxInt + 1) \/ (~neg /\ mag > MaxInt)
          THEN [ok |-> FALSE, val |-> IF neg THEN MinInt ELSE MaxInt]
        ELSE [ok |-> TRUE, val |-> IF neg THEN -mag ELSE mag]

\* strconv.Itoa, which writes the inputs out.
RECURSIVE Decimal(_)
Decimal(v) == IF v < 10 THEN <<DigitChars[v + 1]>>
              ELSE Decimal(v \div 10) \o <<DigitChars[(v % 10) + 1]>>

Itoa(v) == IF v < 0 THEN <<"-">> \o Decimal(-v) ELSE Decimal(v)

---------------------------------------------------------------------------
(* The Board (src/loopover.go:38-89, 139-151).                             *)

\* The nil Board that NewBoard returns beside an error.
NilBoard == [x \in {} |-> 0]

\* Board.Width: cap(*b), the number of columns.
Width(b) == Cardinality(DOMAIN b)

\* Board.Height: cap((*b)[0]), the length of the first column.
Height(b) == Cardinality(DOMAIN b[0])

\* A slip in defaultTileValue: the row is scaled by the height.
defaultTileValueByHeight(b, x, y) == x + y * Height(b) + 1

\* Board.defaultTileValue.
defaultTileValue(b, x, y) == x + y * Width(b) + 1

\* Board.resetTile.
resetTile(b, x, y) == [b EXCEPT ![x][y] = defaultTileValue(b, x, y)]

\* A slip in the outer loop: it stops one column short.
RECURSIVE ResetFromShort(_, _)
ResetFromShort(b, k) ==
    IF k >= (Width(b) - 1) * Height(b) THEN b
    ELSE ResetFromShort(resetTile(b, k \div Height(b), k % Height(b)), k + 1)

\* The nested loops of Reset and of NewBoard: x outside, y inside; k counts
\* the tiles already visited.
RECURSIVE ResetFrom(_, _)
ResetFrom(b, k) ==
    IF k >= Width(b) * Height(b) THEN b
    ELSE ResetFrom(resetTile(b, k \div Height(b), k % Height(b)), k + 1)

\* Board.Reset.
Reset(b) == ResetFrom(b, 0)

\* NewBoard: the error, or the board made of `width` columns of `height`
\* tiles, each set by resetTile.
NewBoard(width, height) ==
    IF width <= 1
      THEN [board |-> NilBoard, err |-> "board width must be greater than 1"]
    ELSE IF height <= 1
      THEN [board |-> NilBoard, err |-> "board height must be greater than 1"]
    ELSE [board |-> Reset([x \in 0..(width - 1) |-> [y \in 0..(height - 1) |-> 0]]),
          err   |-> ""]

\* Board.IsSolved.
IsSolved(b) ==
    \A x \in 0..(Width(b) - 1) : \A y \in 0..(Height(b) - 1) :
        b[x][y] = defaultTileValue(b, x, y)

---------------------------------------------------------------------------
(* Moves and the rotation engine (src/loopover.go:153-205).                *)

HorizontalAxis == TRUE

VerticalAxis == FALSE

\* The nil *Move that ParseMove returns beside an error.
NilMove == [Axis |-> VerticalAxis, Index |-> 0, Amount |-> 0]

\* A slip in the carry: p is written but never reloaded.
RECURSIVE CarryStuck(_, _, _)
CarryStuck(b, cells, p) ==
    IF cells = <<>> THEN b
    ELSE CarryStuck([b EXCEPT ![Head(cells)[1]][Head(cells)[2]] = p],
                    Tail(cells), p)

\* `board[x][y], p = p, board[x][y]` along the tiles of `cells`, in order.
RECURSIVE Carry(_, _, _)
Carry(b, cells, p) ==
    IF cells = <<>> THEN b
    ELSE LET x == Head(cells)[1]
             y == Head(cells)[2]
         IN  Carry([b EXCEPT ![x][y] = p], Tail(cells), b[x][y])

\* The tiles of row `index` from left to right, of column `index` from top
\* to bottom.
RowCells(b, index) == [k \in 1..Width(b) |-> <<k - 1, index>>]

ColumnCells(b, index) == [k \in 1..Height(b) |-> <<index, k - 1>>]

Reverse(s) == [k \in 1..Len(s) |-> s[Len(s) + 1 - k]]

\* Whether the loop body's first read, board[..][m.Index] or
\* board[m.Index][..], is inside the slices.
InBoard(b, m) ==
    IF m.Axis = HorizontalAxis THEN m.Index \in 0..(Height(b) - 1)
    ELSE m.Index \in 0..(Width(b) - 1)

\* A slip in the loop body: the direction is ignored, every pass goes forward.
RotateForwardOnly(b, m, forward) ==
    IF m.Axis = HorizontalAxis
      THEN Carry(b, RowCells(b, m.Index), b[Width(b) - 1][m.Index])
    ELSE Carry(b, ColumnCells(b, m.Index), b[m.Index][Height(b) - 1])

\* One pass of the loop body of MakeMove: a rotation of the line by one.
Rotate(b, m, forward) ==
    IF m.Axis = HorizontalAxis
      THEN IF forward
             THEN Carry(b, RowCells(b, m.Index), b[Width(b) - 1][m.Index])
           ELSE Carry(b, Reverse(RowCells(b, m.Index)), b[0][m.Index])
    ELSE IF forward
             THEN Carry(b, ColumnCells(b, m.Index), b[m.Index][Height(b) - 1])
           ELSE Carry(b, Reverse(ColumnCells(b, m.Index)), b[m.Index][0])

\* `for i := 0; i < amnt; i++`: the board, the passes made, and whether the
\* body aborted (index out of range, before anything was written).
RECURSIVE MakeMoveLoop(_, _, _, _)
MakeMoveLoop(b, m, i, amnt) ==
    IF ~(i < amnt) THEN [board |-> b, rotations |-> i, panic |-> FALSE]
    ELSE IF ~InBoard(b, m) THEN [board |-> b, rotations |-> i, panic |-> TRUE]
    ELSE MakeMoveLoop(Rotate(b, m, m.Amount > 0), m, i + 1, amnt)

\* Board.MakeMove: the board it leaves, the value it returns, the number of
\* unit rotations it made.
MakeMove(b, m) ==
    LET amnt == Abs(m.Amount)
        r    == MakeMoveLoop(b, m, 0, amnt)
    IN  [board |-> r.board, ret |-> amnt, rotations |-> r.rotations,
         panic |-> r.panic]

---------------------------------------------------------------------------
(* The Programmer's Notation parser (src/loopover.go:207-298).             *)

\* What ParseMove hands back: a Move, an error, or a panic of the runtime.
ParseError(msg) == [move |-> NilMove, err |-> msg, panic |-> FALSE]

ParsePanic == [move |-> NilMove, err |-> "panic", panic |-> TRUE]

ParseOk(axis, amount, index) ==
    [move  |-> [Axis |-> axis, Index |-> index, Amount |-> amount],
     err   |-> "", panic |-> FALSE]

\* The byte slice s[from:to] of a string of bytes, offsets counted from 0.
Slice(bs, from, to) == SubSeq(bs, from + 1, to)

\* A slip in the reversal: the index is counted from dimension, not from
\* dimension - 1.
ReverseIndexFromDimension(b, axis, index) ==
    IF axis = HorizontalAxis THEN Wrap(Width(b) - index)
    ELSE Wrap(Height(b) - index)

\* `if reverseIndex { index = dimension - 1 - index }`, in machine integers.
ReverseIndex(b, axis, index) ==
    IF axis = HorizontalAxis THEN Wrap(Width(b) - 1 - index)
    ELSE Wrap(Height(b) - 1 - index)

\* `max` of the bounds check: the width for a Row move, the height for a
\* Column move.
IndexMax(b, axis) == IF axis = HorizontalAxis THEN Width(b) ELSE Height(b)

\* Lines 252-297: the index and the bounds check.
ParseIndex(bytes, ai, b, axis, amount) ==
    LET indexStr0    == Slice(bytes, ai + 1, Len(bytes))
        reverseIndex == bytes[Len(bytes)] = "'"
        indexStr     == IF reverseIndex
                          THEN Slice(indexStr0, 0, Len(indexStr0) - 1)
                        ELSE indexStr0
        parsed       == Atoi(indexStr)
        index        == IF reverseIndex THEN ReverseIndex(b, axis, parsed.val)
                        ELSE parsed.val
    IN  IF Len(indexStr0) = 0 THEN ParseError("missing amount")
        ELSE IF ~parsed.ok THEN ParseError("invalid number for index")
        ELSE IF index < 0 THEN ParseError("amount must be greater or equal to 0")
        ELSE IF index >= IndexMax(b, axis)
          THEN ParseError("amount must be lesser to max")
        ELSE ParseOk(axis, amount, index)

\* Lines 236-250: the amount.
ParseAmount(bytes, ai, b, axis) ==
    LET amountStr == Slice(bytes, 0, ai)
        parsed    == Atoi(amountStr)
    IN  IF Len(amountStr) = 0 THEN ParseError("missing amount")
        ELSE IF ~parsed.ok THEN ParseError("invalid number for amount")
        ELSE IF parsed.val = 0 THEN ParseError("amount cannot be 0")
        ELSE ParseIndex(bytes, ai, b, axis, parsed.val)

\* ParseMove.  `input` is the string as runes; ai is a byte offset, which
\* line 227 uses as an index into []rune(input).
ParseMove(input, b) ==
    LET bytes == Bytes(input)
        ai    == FirstLetter(input, 1, 0)
    IN  IF Len(bytes) = 0 THEN ParseError("empty input")
        ELSE IF ai = -1 THEN ParseError("no move character")
        ELSE IF ai >= Len(input) THEN ParsePanic
        ELSE LET c == ToLower(input[ai + 1])
             IN  IF c = "r" THEN ParseAmount(bytes, ai, b, HorizontalAxis)
                 ELSE IF c = "c" THEN ParseAmount(bytes, ai, b, VerticalAxis)
                 ELSE ParseError("invalid move character")

---------------------------------------------------------------------------
(* The shuffles (src/loopover.go:91-137).                                  *)

\* The tiles (x2, y2) on which the loop of lines 98-103 can stop: it goes
\* on while x1 == x2 || y1 == y2.
Partners(b, x1, y1) ==
    {c \in (0..(Width(b) - 1)) \X (0..(Height(b) - 1)) :
        ~(x1 = c[1] \/ y1 = c[2])}

\* A slip in the swap: the first tile takes the second's value, which the
\* second keeps.
SwapOneWay(b, c1, c2) == [b EXCEPT ![c1[1]][c1[2]] = b[c2[1]][c2[2]]]

\* Line 105: the swap of two tiles.
Swap(b, c1, c2) ==
    [x \in DOMAIN b |-> [y \in DOMAIN b[x] |->
        IF <<x, y>> = c1 THEN b[c2[1]][c2[2]]
        ELSE IF <<x, y>> = c2 THEN b[c1[1]][c1[2]]
        ELSE b[x][y]]]

\* The tile (x1, y1) the loops of lines 95-96 visit after k tiles: x1
\* outside, y1 inside.
ScanTile(b, k) == <<k \div Height(b), k % Height(b)>>

\* Line 113: the default number of iterations.
ShuffleIterations(b, iterations) ==
    IF iterations = 0 THEN Width(b) + Height(b) ELSE iterations

\* Lines 119-133: the Moves one pass of the loop of Shuffle can draw.
ShuffleMoves(b) ==
    UNION {LET max == IF a = HorizontalAxis THEN Width(b) ELSE Height(b)
           IN  {[Axis |-> a, Index |-> i, Amount |-> k + 1] :
                    i \in 0..(max - 1), k \in 0..(max - 2)} :
           a \in {HorizontalAxis, VerticalAxis}}

---------------------------------------------------------------------------
(* The state machine: the calls a driver of the board can make.            *)

\* The record kept of a call.
Call(op, args, err, move, ret, rotations) ==
    [op |-> op, args |-> args, err |-> err, move |-> move, ret |-> ret,
     rotations |-> rotations]

\* No shuffle is running.
NoShuffle == [iterations |-> 0, moves |-> 0, tile |-> 0]

Init ==
    /\ board = NilBoard
    /\ prev = NilBoard
    /\ status = "ok"
    /\ pc = "idle"
    /\ sh = NoShuffle
    /\ last = Call("none", <<>>, "", NilMove, 0, 0)
    /\ n = 0

\* A call can start: nothing has aborted and no Shuffle is running.
Ready == status = "ok" /\ pc = "idle"

\* NewBoard(width, height), called until it succeeds (main, lines 403-428).
NewBoardCall(width, height) ==
    /\ Ready
    /\ board = NilBoard
    /\ board' = NewBoard(width, height).board
    /\ last' = Call("NewBoard", <<width, height>>,
                    NewBoard(width, height).err, NilMove, 0, 0)
    /\ prev' = NilBoard
    /\ UNCHANGED <<status, pc, sh, n>>

\* ParseMove(input, &board).
ParseMoveCall(input) ==
    /\ Ready
    /\ board # NilBoard
    /\ LET r == ParseMove(input, board)
       IN  /\ last' = Call("ParseMove", <<input>>, r.err, r.move, 0, 0)
           /\ status' = IF r.panic THEN "panic" ELSE "ok"
    /\ prev' = NilBoard
    /\ UNCHANGED <<board, pc, sh, n>>

\* board.MakeMove(m), m the Move ParseMove has just returned (main, line 463).
MakeMoveCall ==
    /\ Ready
    /\ last.op = "ParseMove"
    /\ last.err = ""
    /\ LET r == MakeMove(board, last.move)
       IN  /\ board' = r.board
           /\ status' = IF r.panic THEN "panic" ELSE "ok"
           /\ last' = Call("MakeMove", <<>>, "", last.move, r.ret, r.rotations)
    /\ prev' = board
    /\ UNCHANGED <<pc, sh, n>>

\* board.Reset().
ResetCall ==
    /\ Ready
    /\ board # NilBoard
    /\ board' = Reset(board)
    /\ last' = Call("Reset", <<>>, "", NilMove, 0, 0)
    /\ prev' = NilBoard
    /\ UNCHANGED <<status, pc, sh, n>>

\* board.FastShuffle(): up to the loops.
FastShuffleCall ==
    /\ Ready
    /\ board # NilBoard
    /\ pc' = "FastShuffle"
    /\ sh' = NoShuffle
    /\ last' = Call("FastShuffle", <<>>, "", NilMove, 0, 0)
    /\ prev' = NilBoard
    /\ UNCHANGED <<board, status, n>>

\* One pass of the loops of FastShuffle: a random partner for the tile, and
\* the swap.
FastShuffleLoop ==
    /\ pc = "FastShuffle"
    /\ sh.tile < Width(board) * Height(board)
    /\ LET c1 == ScanTile(board, sh.tile)
       IN  \E c2 \in Partners(board, c1[1], c1[2]) :
               board' = Swap(board, c1, c2)
    /\ sh' = [sh EXCEPT !.tile = sh.tile + 1]
    /\ UNCHANGED <<prev, status, pc, last, n>>

\* FastShuffle returns once every tile was visited.
FastShuffleReturn ==
    /\ pc = "FastShuffle"
    /\ ~(sh.tile < Width(board) * Height(board))
    /\ pc' = "idle"
    /\ sh' = NoShuffle
    /\ UNCHANGED <<board, prev, status, last, n>>

\* board.Shuffle(iterations): lines 113-117, up to the loop.
ShuffleCall(iterations) ==
    /\ Ready
    /\ board # NilBoard
    /\ pc' = "Shuffle"
    /\ sh' = [NoShuffle EXCEPT !.iterations = ShuffleIterations(board, iterations)]
    /\ last' = Call("Shuffle", <<iterations>>, "", NilMove, 0, 0)
    /\ prev' = NilBoard
    /\ UNCHANGED <<board, status, n>>

\* One pass of the loop of Shuffle: a random Move, applied by MakeMove.
ShuffleLoop ==
    /\ status = "ok"
    /\ pc = "Shuffle"
    /\ sh.moves < sh.iterations
    /\ \E m \in ShuffleMoves(board) :
          LET r == MakeMove(board, m)
          IN  /\ board' = r.board
              /\ status' = IF r.panic THEN "panic" ELSE "ok"
              /\ sh' = IF r.panic THEN sh
                       ELSE [sh EXCEPT !.moves = sh.moves + 1]
    /\ UNCHANGED <<prev, pc, last, n>>

\* Line 136: `return moves`.
ShuffleReturn ==
    /\ status = "ok"
    /\ pc = "Shuffle"
    /\ ~(sh.moves < sh.iterations)
    /\ pc' = "idle"
    /\ sh' = NoShuffle
    /\ last' = [last EXCEPT !.ret = sh.moves]
    /\ UNCHANGED <<board, prev, status, n>>

---------------------------------------------------------------------------
(* The inputs the calls are tried on.                                      *)

MaxAmount == 2

MaxIters == 1

MaxCells == 6

\* The sizes NewBoard is called with: every width and height from 0 to 3
\* that asks for no more than MaxCells tiles, so that the boards are 2x2,
\* 3x2 and 2x3.
BoardSizes == {d \in (0..3) \X (0..3) : d[1] * d[2] <= MaxCells}

\* Amounts: the smallest int, one step back, and the steps forward up to
\* MaxAmount.
Amounts == {MinInt, -1} \cup (1..MaxAmount)

AxisLetters == {"r", "c"}

\* Moves in the notation, on the lines 0 to 2 of either axis: every line
\* of the boards, and lines that only one of the two axes has.
MoveInputs ==
    {Itoa(a) \o <<l>> \o Itoa(i) : a \in Amounts, l \in AxisLetters, i \in 0..2}

ShuffleArgs == (-1)..MaxIters

Next ==
    \/ \E d \in BoardSizes : NewBoardCall(d[1], d[2])
    \/ \E s \in MoveInputs : ParseMoveCall(s)
    \/ MakeMoveCall
    \/ ResetCall
    \/ FastShuffleCall
    \/ FastShuffleLoop
    \/ FastShuffleReturn
    \/ \E i \in ShuffleArgs : ShuffleCall(i)
    \/ ShuffleLoop
    \/ ShuffleReturn

Spec == Init /\ [][Next]_vars

---------------------------------------------------------------------------
(* NewBoard, ParseMove and MakeMove as functions of their inputs: a fresh  *)
(* board of one of the sizes below, one input string parsed against it,    *)
(* and the Move, when one is returned, applied to it.                      *)

\* The sizes of BoardSizes, a negative width and height, and the boards of
\* the README: 3x3 and 5x5.
ParseSizes == BoardSizes \cup {<<-1, 2>>, <<2, -1>>, <<3, 3>>, <<5, 5>>}

\* What is written before the axis letter: nothing, a bare sign, zero,
\* signed and unsigned amounts, the smallest int, one more than the largest
\* int, and text that is no number.
AmountTexts ==
    {<<>>, <<"-">>, <<"0">>, <<"1">>, <<"2">>, <<"-", "1">>, <<"+", "1">>,
     Itoa(MinInt), Itoa(MaxInt + 1), <<"€">>, <<"€", "€">>, <<"1", "€">>,
     <<" ", "1">>}

\* The axis letter: none, the four of the notation, another letter, and a
\* letter of two bytes.
AxisTexts == {<<>>, <<"r">>, <<"R">>, <<"c">>, <<"C">>, <<"x">>, <<"é">>}

\* What is written after the axis letter.
IndexTexts ==
    {Itoa(i) : i \in 0..5} \cup
    {<<>>, <<"-", "0">>, <<"-", "1">>, <<"+", "1">>, <<"1", "x">>, <<"€">>,
     Itoa(MinInt), Itoa(MaxInt + 1)}

ApostropheTexts == {<<>>, <<"'">>}

ParseInputs ==
    {a \o l \o i \o q :
        a \in AmountTexts, l \in AxisTexts, i \in IndexTexts,
        q \in ApostropheTexts}

NextParse ==
    \/ \E d \in ParseSizes : NewBoardCall(d[1], d[2])
    \/ last.op = "NewBoard" /\ \E s \in ParseInputs : ParseMoveCall(s)
    \/ MakeMoveCall

SpecParse == Init /\ [][NextParse]_vars

---------------------------------------------------------------------------
(* Properties.                                                             *)

\* The tiles of a board, its rows and its columns.
Tiles(b) == (0..(Width(b) - 1)) \X (0..(Height(b) - 1))

Row(b, y) == [k \in 1..Width(b) |-> b[k - 1][y]]

Column(b, x) == [k \in 1..Height(b) |-> b[x][k - 1]]

\* A MakeMove call has returned (it did not abort).
Moved == last.op = "MakeMove" /\ status = "ok"

\* A ParseMove call has returned a Move.
Parsed == last.op = "ParseMove" /\ status = "ok" /\ last.err = ""

\* The Move names a line the board has: a Row move one of its rows, a
\* Column move one of its columns.
NamesLine(b, m) ==
    IF m.Axis = HorizontalAxis THEN 0 <= m.Index /\ m.Index < Height(b)
    ELSE 0 <= m.Index /\ m.Index < Width(b)

\* The length of the line a Move rotates: the width for a Row, the height
\* for a Column.
LineLength(b, m) == IF m.Axis = HorizontalAxis THEN Width(b) ELSE Height(b)

\* The board b with the line of m shifted by k places: along a Row to the
\* right, along a Column downwards, wrapping around.
Shifted(b, m, k) ==
    [x \in DOMAIN b |-> [y \in DOMAIN b[x] |->
        IF m.Axis = HorizontalAxis /\ y = m.Index
          THEN b[(x - k) % Width(b)][y]
        ELSE IF m.Axis = VerticalAxis /\ x = m.Index
          THEN b[x][(y - k) % Height(b)]
        ELSE b[x][y]]]

\* C1: whenever there is a board, whatever calls were made and wherever a
\* shuffle stands, each of the values 1..width*height is on exactly one tile.
C1_EachValueOnce ==
    board # NilBoard =>
        \A v \in 1..(Width(board) * Height(board)) :
            Cardinality({c \in Tiles(board) : board[c[1]][c[2]] = v}) = 1

\* C1: a board that was scrambled, then changed again by a parsed move.
C1_Witness ==
    /\ Moved
    /\ board # prev
    /\ ~IsSolved(prev)
    /\ ~IsSolved(board)

\* C2: every Move that ParseMove returns names a line of the board, and
\* MakeMove applied to it returns instead of aborting out of range.
C2_ParsedMoveOnBoard ==
    /\ Parsed => NamesLine(board, last.move)
    /\ last.op = "MakeMove" => status = "ok"

\* C3: a move by +1 leaves the line shifted by one place to the right (down,
\* for a Column), a move by -1 by one place to the left (up), the last value
\* wrapping to the first place or the first to the last, and every tile off
\* the line as it was; "1R0" parses to a move that turns row 0 of the solved
\* 3x3 board into 3,1,2 and "2C0" to one that turns column 0 of the solved
\* 5x5 board into 16,21,1,6,11.
C3_UnitRotation ==
    /\ (Moved /\ last.move.Amount \in {1, -1}) =>
           board = Shifted(prev, last.move, last.move.Amount)
    /\ (Parsed /\ last.args[1] = <<"1", "R", "0">>) =>
           last.move = [Axis |-> HorizontalAxis, Index |-> 0, Amount |-> 1]
    /\ (Parsed /\ last.args[1] = <<"2", "C", "0">>) =>
           last.move = [Axis |-> VerticalAxis, Index |-> 0, Amount |-> 2]
    /\ (Moved /\ Width(prev) = 3 /\ Height(prev) = 3
              /\ last.move = [Axis |-> HorizontalAxis, Index |-> 0, Amount |-> 1]) =>
           (Row(prev, 0) = <<1, 2, 3>> /\ Row(board, 0) = <<3, 1, 2>>)
    /\ (Moved /\ Width(prev) = 5 /\ Height(prev) = 5
              /\ last.move = [Axis |-> VerticalAxis, Index |-> 0, Amount |-> 2]) =>
           (Column(prev, 0) = <<1, 6, 11, 16, 21>>
              /\ Column(board, 0) = <<16, 21, 1, 6, 11>>)

\* C3: a column of a board that is not square was moved up by one.
C3_Witness ==
    /\ Moved
    /\ last.move.Axis = VerticalAxis
    /\ last.move.Amount = -1
    /\ Width(board) # Height(board)
    /\ board # prev

\* The Move with the same axis and index and the amount negated, in machine
\* integers.
Negated(m) == [m EXCEPT !.Amount = Wrap(-m.Amount)]

\* C4: after a move on a line of the board, the move with the negated amount
\* brings back the board the first move started from.
C4_InverseRestores ==
    (Moved /\ NamesLine(prev, last.move)) =>
        /\ ~MakeMove(board, Negated(last.move)).panic
        /\ MakeMove(board, Negated(last.move)).board = prev

\* C4: a move by two that changed a scrambled board.
C4_Witness ==
    /\ Moved
    /\ last.move.Amount = 2
    /\ board # prev
    /\ ~IsSolved(prev)
    /\ MakeMove(board, Negated(last.move)).board = prev

\* C5: a move leaves the board that any move on the same line with an
\* amount congruent modulo the line's length would leave, and a move by a
\* multiple of the line's length leaves the board as it was.
C5_CongruentAmounts ==
    (Moved /\ NamesLine(prev, last.move)) =>
        /\ \A a \in (MinInt..MaxInt) \ {0} :
               (a - last.move.Amount) % LineLength(prev, last.move) = 0 =>
                   MakeMove(prev, [last.move EXCEPT !.Amount = a]).board = board
        /\ last.move.Amount % LineLength(prev, last.move) = 0 => board = prev

\* C6: MakeMove makes |amount| unit rotations and returns |amount|, a
\* positive number.
C6_ReturnsAbsAmount ==
    (Moved /\ NamesLine(prev, last.move)) =>
        /\ last.rotations = MathAbs(last.move.Amount)
        /\ last.ret = MathAbs(last.move.Amount)
        /\ last.ret > 0

\* C7: NewBoard returns an error and no board exactly when width <= 1 or
\* height <= 1; otherwise a board of that width and height whose tile (x, y)
\* holds x + y*width + 1, which IsSolved accepts.
C7_NewBoard ==
    last.op = "NewBoard" =>
        LET width  == last.args[1]
            height == last.args[2]
        IN  /\ last.err # "" <=> (width <= 1 \/ height <= 1)
            /\ last.err # "" => board = NilBoard
            /\ last.err = "" =>
                   /\ DOMAIN board = 0..(width - 1)
                   /\ \A x \in 0..(width - 1) :
                          /\ DOMAIN board[x] = 0..(height - 1)
                          /\ \A y \in 0..(height - 1) :
                                 board[x][y] = x + y * width + 1
                   /\ Width(board) = width
                   /\ Height(board) = height
                   /\ IsSolved(board)

\* C7: a board that is not square was created.
C7_Witness ==
    /\ last.op = "NewBoard"
    /\ last.err = ""
    /\ Width(board) = 3
    /\ Height(board) = 2
    /\ IsSolved(board)

\* The parts of an input as the notation reads them: the place of the first
\* letter (0 when there is none), the text before it, and the text after it
\* up to a final apostrophe.
LetterPlace(s) ==
    IF \E k \in 1..Len(s) : IsLetter(s[k])
      THEN CHOOSE k \in 1..Len(s) :
               IsLetter(s[k]) /\ \A j \in 1..(k - 1) : ~IsLetter(s[j])
    ELSE 0

EndsWithApostrophe(s) == Len(s) > 0 /\ s[Len(s)] = "'"

AmountText(s) == SubSeq(s, 1, LetterPlace(s) - 1)

IndexText(s) ==
    SubSeq(s, LetterPlace(s) + 1,
           IF EndsWithApostrophe(s) THEN Len(s) - 1 ELSE Len(s))

\* The number a text writes, if it writes one.
Number(t) == Atoi(Bytes(t))

\* The dimension the index of an input is checked against: the width when
\* its axis letter is r or R, the height when it is c or C.
Dimension(b, s) ==
    IF s[LetterPlace(s)] \in {"r", "R"} THEN Width(b) ELSE Height(b)

\* The index an input asks for: the written one, or dimension - 1 - it when
\* the input ends with an apostrophe.
AskedIndex(b, s) ==
    IF EndsWithApostrophe(s) THEN Dimension(b, s) - 1 - Number(IndexText(s)).val
    ELSE Number(IndexText(s)).val

\* The inputs that C8 lists.
Malformed(b, s) ==
    \/ s = <<>>
    \/ LetterPlace(s) = 0
    \/ /\ LetterPlace(s) > 0
       /\ \/ s[LetterPlace(s)] \notin {"r", "R", "c", "C"}
          \/ AmountText(s) = <<>>
          \/ ~Number(AmountText(s)).ok
          \/ Number(AmountText(s)).val = 0
          \/ IndexText(s) = <<>>
          \/ ~Number(IndexText(s)).ok
          \/ AskedIndex(b, s) < 0
          \/ AskedIndex(b, s) >= Dimension(b, s)

\* C8: ParseMove returns an error and no Move for every input of that list,
\* and every Move it returns has amount # 0 and 0 <= index < dimension.
C8_RejectsMalformed ==
    last.op = "ParseMove" =>
        /\ Malformed(board, last.args[1]) =>
               (status = "ok" /\ last.err # "" /\ last.move = NilMove)
        /\ Parsed =>
               /\ last.move.Amount # 0
               /\ 0 <= last.move.Index
               /\ last.move.Index < Dimension(board, last.args[1])

\* C9: for an input that ends with an apostrophe and writes the index i, a
\* Move that is returned has index dimension - 1 - i, no Move is returned
\* when that value is outside [0, dimension), and "1R0'" on a board of
\* width 5 yields index 4.
C9_ReverseIndex ==
    (last.op = "ParseMove" /\ EndsWithApostrophe(last.args[1])) =>
        LET s == last.args[1]
        IN  /\ Parsed =>
                   last.move.Index =
                       Dimension(board, s) - 1 - Number(IndexText(s)).val
            /\ ( /\ LetterPlace(s) > 0
                 /\ Number(IndexText(s)).ok
                 /\ AskedIndex(board, s) \notin 0..(Dimension(board, s) - 1) )
                   => (last.err # "" /\ last.move = NilMove)
            /\ (s = <<"1", "R", "0", "'">> /\ Width(board) = 5) =>
                   (Parsed /\ last.move.Index = 4)

\* C9: a Move came back for an input with an apostrophe, on a board that is
\* not square, for a line other than the one written.
C9_Witness ==
    /\ Parsed
    /\ EndsWithApostrophe(last.args[1])
    /\ Width(board) # Height(board)
    /\ last.move.Index # Number(IndexText(last.args[1])).val
    /\ last.move.Index = Height(board) - 1 - Number(IndexText(last.args[1])).val

\* C10: Shuffle called with iterations <= 0 returns width + height.
C10_NonPositiveIterations ==
    (last.op = "Shuffle" /\ pc = "idle" /\ status = "ok" /\ last.args[1] <= 0) =>
        last.ret = Width(board) + Height(board)


\* C11: a Shuffle called with iterations > 0 never aborts; every Move a
\* pass of its loop can draw names a line of the board and has an amount
\* from 1 to the length of that line less one; no more than `iterations`
\* moves are made, and `iterations` is what it returns.
C11_ShuffleCompletes ==
    (last.op = "Shuffle" /\ last.args[1] > 0) =>
        /\ status = "ok"
        /\ pc = "Shuffle" =>
               /\ sh.moves <= last.args[1]
               /\ \A m \in ShuffleMoves(board) :
                      /\ NamesLine(board, m)
                      /\ m.Amount \in 1..(LineLength(board, m) - 1)
        /\ pc = "idle" => last.ret = last.args[1]

\* C12: while FastShuffle runs, the tiles the visited tile (x1, y1) can be
\* swapped with are all the tiles of the board but (x1, y1) itself, those
\* of its row and of its column included.
C12_AnyOtherTile ==
    (pc = "FastShuffle" /\ sh.tile < Width(board) * Height(board)) =>
        LET c1 == ScanTile(board, sh.tile)
        IN  Partners(board, c1[1], c1[2]) = Tiles(board) \ {c1}

---------------------------------------------------------------------------
(* The two shuffles on a fresh board, the 3x3 board of the README          *)
(* included: one FastShuffle, or one Shuffle, from the solved board.       *)

\* The sizes the shuffles are tried on: a width and a height that are both
\* even, both odd, and one of each.
ShuffleSizes == {<<2, 2>>, <<3, 2>>, <<3, 3>>}

NextShuffle ==
    \/ \E d \in ShuffleSizes : NewBoardCall(d[1], d[2])
    \/ last.op = "NewBoard" /\ FastShuffleCall
    \/ FastShuffleLoop
    \/ FastShuffleReturn
    \/ last.op = "NewBoard" /\ \E i \in ShuffleArgs \ {0} : ShuffleCall(i)
    \/ ShuffleLoop
    \/ ShuffleReturn

SpecShuffle == Init /\ [][NextShuffle]_vars

\* The place of a tile when the board is read row by row.
Place(b, c) == c[1] + c[2] * Width(b)

\* The pairs of tiles whose values are out of order: none on the solved
\* board.
Inversions(b) ==
    {p \in Tiles(b) \X Tiles(b) :
        /\ Place(b, p[1]) < Place(b, p[2])
        /\ b[p[1][1]][p[1][2]] > b[p[2][1]][p[2][2]]}

EvenBoard(b) == Cardinality(Inversions(b)) % 2 = 0

\* The parity a move keeps or flips: the rotation of a line of length n by
\* one place is n - 1 exchanges of two tiles.
KeepsParity(b, m) ==
    (MathAbs(m.Amount) * (LineLength(b, m) - 1)) % 2 = 0

\* Every move on a line of the board keeps or flips the parity of the
\* board as the length of its line says.
RotationsFollowParity ==
    (Moved /\ NamesLine(prev, last.move) /\ last.move.Amount # MinInt) =>
        ((EvenBoard(board) = EvenBoard(prev)) <=> KeepsParity(prev, last.move))

\* A board of odd width and odd height whose tiles are an odd permutation
\* of the solved board: every line has an odd length, so that every move
\* keeps the parity, and the solved board is even.
OutOfReach(b) ==
    /\ Width(b) % 2 = 1
    /\ Height(b) % 2 = 1
    /\ ~EvenBoard(b)

\* A shuffle has returned.
Shuffled == last.op \in {"FastShuffle", "Shuffle"} /\ pc = "idle" /\ status = "ok"

\* C13: the board a FastShuffle or a Shuffle leaves is one that moves can
\* bring back to the solved board: it is not an odd permutation on a board
\* where every move is an even one.
C13_ShuffledStillSolvable ==
    Shuffled => ~OutOfReach(board)

\* C14: every call of ParseMove returns, with a Move or with an error, and
\* not both; none aborts.
C14_ParseMoveReturns ==
    last.op = "ParseMove" =>
        /\ status = "ok"
        /\ last.err = "" <=> last.move # NilMove

---------------------------------------------------------------------------
(* The game loop of main (src/loopover.go:430-468): each line read is a    *)
(* command, "shuffle", "reset" or a move in the notation, and n counts the *)
(* moves done.                                                             *)

\* strings.ToLower (line 449).
StringsToLower(s) == [k \in 1..Len(s) |-> ToLower(s[k])]

\* A slip in the default case: `continue` is missing, and the rejected
\* input is counted as a move.
MoveCaseCounting(b, count, s) ==
    LET r == ParseMove(s, b)
    IN  IF r.err # ""
          THEN [board |-> b, n |-> Wrap(count + 1), err |-> r.err,
                move |-> NilMove, ret |-> 0, rotations |-> 0, panic |-> r.panic]
        ELSE LET mm == MakeMove(b, r.move)
             IN  [board |-> mm.board,
                  n |-> IF mm.panic THEN count ELSE Wrap(count + mm.ret),
                  err |-> "", move |-> r.move, ret |-> mm.ret,
                  rotations |-> mm.rotations, panic |-> mm.panic]

\* The default case of the switch (lines 456-463): ParseMove; on an error
\* `continue`; otherwise `n += b.MakeMove(m)`.
MoveCase(b, count, s) ==
    LET r == ParseMove(s, b)
    IN  IF r.err # ""
          THEN [board |-> b, n |-> count, err |-> r.err,
                move |-> NilMove, ret |-> 0, rotations |-> 0, panic |-> r.panic]
        ELSE LET mm == MakeMove(b, r.move)
             IN  [board |-> mm.board,
                  n |-> IF mm.panic THEN count ELSE Wrap(count + mm.ret),
                  err |-> "", move |-> r.move, ret |-> mm.ret,
                  rotations |-> mm.rotations, panic |-> mm.panic]

\* The record kept of a command: that of a call, and the count that line
\* 441 printed before the command was read.
Command(op, args, err, move, ret, rotations) ==
    Call(op, args, err, move, ret, rotations) @@ [shown |-> n]

MaxCount == 3

\* A line that is neither "shuffle" nor "reset".  The game is followed
\* until MaxCount moves are counted.
MoveCommand(text) ==
    /\ Ready
    /\ board # NilBoard
    /\ n < MaxCount
    /\ LET r == MoveCase(board, n, StringsToLower(text))
       IN  /\ board' = r.board
           /\ n' = r.n
           /\ status' = IF r.panic THEN "panic" ELSE "ok"
           /\ last' = Command("move", <<text>>, r.err, r.move, r.ret, r.rotations)
    /\ prev' = board
    /\ UNCHANGED <<pc, sh>>

\* The line "reset" (lines 452-455).
ResetCommand ==
    /\ Ready
    /\ board # NilBoard
    /\ board' = Reset(board)
    /\ n' = 0
    /\ last' = Command("reset", <<>>, "", NilMove, 0, 0)
    /\ prev' = board
    /\ UNCHANGED <<status, pc, sh>>

\* The sizes of the boards the game is played on.
GameSizes == {<<2, 2>>, <<3, 2>>, <<1, 3>>}

\* The lines typed: moves on rows and columns, written in either case, a
\* reversed index, a row that only the wider board has, and lines that
\* ParseMove rejects.
GameInputs ==
    {<<"1", "r", "0">>, <<"1", "R", "1">>, <<"-", "1", "c", "0">>,
     <<"2", "C", "1">>, <<"1", "r", "0", "'">>, <<"1", "c", "2">>,
     <<"0", "r", "0">>, <<"r", "0">>, <<"1", "x", "0">>, <<>>, <<"€", "c">>}

\* The line "shuffle" runs ScanShuffle (lines 355-395): FastShuffle, or
\* Shuffle(iters) where iters is always 0, the value read being assigned to
\* a second variable of that name (line 380).
NextGame ==
    \/ \E d \in GameSizes : NewBoardCall(d[1], d[2])
    \/ \E s \in GameInputs : MoveCommand(s)
    \/ ResetCommand
    \/ FastShuffleCall
    \/ FastShuffleLoop
    \/ FastShuffleReturn
    \/ ShuffleCall(0)
    \/ ShuffleLoop
    \/ ShuffleReturn

SpecGame == Init /\ [][NextGame]_vars

\* A move command was answered with an error.
Rejected == last.op = "move" /\ status = "ok" /\ last.err # ""

\* C15: a move command that ParseMove rejects leaves every tile of the
\* board and the count of moves as they were.
C15_RejectedInputChangesNothing ==
    Rejected => (board = prev /\ n = last.shown)

\* C15: an input was rejected on a scrambled board, after moves were
\* counted.
C15_Witness ==
    /\ Rejected
    /\ ~IsSolved(board)
    /\ n > 0

\* C16: after the reset command every tile (x, y) holds x + y*width + 1,
\* IsSolved is true, the count of moves is 0, and the board has the width
\* and the height it had.
C16_ResetCommand ==
    last.op = "reset" =>
        /\ Width(board) = Width(prev)
        /\ Height(board) = Height(prev)
        /\ \A c \in Tiles(board) : board[c[1]][c[2]] = c[1] + c[2] * Width(prev) + 1
        /\ IsSolved(board)
        /\ n = 0
        /\ status = "ok"

\* C16: a reset of a scrambled board that is not square, after moves were
\* counted.
C16_Witness ==
    /\ last.op = "reset"
    /\ ~IsSolved(prev)
    /\ Width(prev) # Height(prev)
    /\ last.shown > 0

---------------------------------------------------------------------------
(* ParseTwoDimensions (src/loopover.go:309-334) and the loop of main that  *)
(* reads the size of the board (lines 401-428).                            *)

\* A slip in the separators: the star is not looked for.
IndexAnyButStar(bs, chars) ==
    IF \E k \in 1..Len(bs) : bs[k] \in chars \ {"*"}
      THEN (CHOOSE k \in 1..Len(bs) :
                /\ bs[k] \in chars \ {"*"}
                /\ \A j \in 1..(k - 1) : bs[j] \notin chars \ {"*"}) - 1
    ELSE -1

\* strings.IndexAny: the byte offset of the first byte that is one of
\* `chars`, or -1.
IndexAny(bs, chars) ==
    IF \E k \in 1..Len(bs) : bs[k] \in chars
      THEN (CHOOSE k \in 1..Len(bs) :
                /\ bs[k] \in chars
                /\ \A j \in 1..(k - 1) : bs[j] \notin chars) - 1
    ELSE -1

\* ParseTwoDimensions: the named results width, height and err, as they
\* stand at each `return`.
ParseTwoDimensions(input) ==
    LET bytes == Bytes(input)
        i     == IndexAny(bytes, {"x", "X", "*"})
        w     == Atoi(Slice(bytes, 0, i))
        h     == Atoi(Slice(bytes, i + 1, Len(bytes)))
    IN  IF Len(bytes) = 0
          THEN [width |-> 0, height |-> 0, err |-> "empty input"]
        ELSE IF i = -1
          THEN [width |-> 0, height |-> 0,
                err |-> "doesn't seem to be a valid dimension"]
        ELSE IF ~w.ok
          THEN [width |-> w.val, height |-> 0, err |-> "strconv.Atoi"]
        ELSE IF ~h.ok
          THEN [width |-> w.val, height |-> h.val, err |-> "strconv.Atoi"]
        ELSE [width |-> w.val, height |-> h.val, err |-> ""]

\* ParseTwoDimensions(input), called while there is no board.
ParseTwoDimensionsCall(input) ==
    /\ Ready
    /\ board = NilBoard
    /\ LET r == ParseTwoDimensions(input)
       IN  last' = Call("ParseTwoDimensions", <<input>>, r.err, NilMove,
                        <<r.width, r.height>>, 0)
    /\ UNCHANGED <<board, prev, status, pc, sh, n>>

\* What is written before the separator, as the separator, and after it.
WidthTexts ==
    {<<>>, <<"5">>, <<"2">>, <<"1">>, <<"0">>, <<"-", "3">>, <<"+", "2">>,
     <<"€">>, <<"5", " ">>, Itoa(MaxInt + 1)}

SeparatorTexts ==
    {<<>>, <<"x">>, <<"X">>, <<"*">>, <<"-">>, <<"x", "*">>}

HeightTexts ==
    {<<>>, <<"5">>, <<"3">>, <<"1">>, <<"-", "1">>, <<"7", "x">>, <<"é">>,
     Itoa(MinInt), Itoa(MinInt - 1)}

SizeInputs ==
    {w \o s \o h : w \in WidthTexts, s \in SeparatorTexts, h \in HeightTexts}

\* ParseTwoDimensions on each input, the empty one included, and the loop
\* of main: the width and height that ParseTwoDimensions returns are given
\* to NewBoard, an empty line asks for the 5x5 board, and the loop goes on
\* until there is a board.
NextSize ==
    \/ \E s \in SizeInputs \ {<<>>} : ParseTwoDimensionsCall(s)
    \/ ParseTwoDimensionsCall(<<>>)
    \/ /\ last.op = "ParseTwoDimensions"
       /\ last.err = ""
       /\ NewBoardCall(last.ret[1], last.ret[2])
    \/ /\ ~(last.op = "ParseTwoDimensions" /\ last.err = "")
       /\ NewBoardCall(5, 5)

SpecSize == Init /\ [][NextSize]_vars

\* The place of the first separator of an input (0 when it has none), the
\* text before it and the text after it.
SeparatorPlace(s) ==
    IF \E k \in 1..Len(s) : s[k] \in {"x", "X", "*"}
      THEN CHOOSE k \in 1..Len(s) :
               /\ s[k] \in {"x", "X", "*"}
               /\ \A j \in 1..(k - 1) : s[j] \notin {"x", "X", "*"}
    ELSE 0

WidthText(s) == SubSeq(s, 1, SeparatorPlace(s) - 1)

HeightText(s) == SubSeq(s, SeparatorPlace(s) + 1, Len(s))

\* C17: ParseTwoDimensions returns an error when the input has none of
\* 'x', 'X', '*'; otherwise, with the input split at the first of them, it
\* returns the two numbers when both sides write an integer, be they <= 1,
\* and an error when a side does not; "5x5", "5X5" and "5*5" give (5, 5)
\* and "5-5" an error.
C17_ParseTwoDimensions ==
    last.op = "ParseTwoDimensions" =>
        LET s == last.args[1]
            w == Number(WidthText(s))
            h == Number(HeightText(s))
        IN  /\ SeparatorPlace(s) = 0 => last.err # ""
            /\ (SeparatorPlace(s) > 0 /\ w.ok /\ h.ok) =>
                   (last.err = "" /\ last.ret = <<w.val, h.val>>)
            /\ (SeparatorPlace(s) > 0 /\ ~(w.ok /\ h.ok)) => last.err # ""
            /\ s \in {<<"5", "x", "5">>, <<"5", "X", "5">>, <<"5", "*", "5">>} =>
                   (last.err = "" /\ last.ret = <<5, 5>>)
            /\ s = <<"5", "-", "5">> => last.err # ""

\* C17: a width of 1 was returned without an error, for an input split at
\* a star.
C17_Witness ==
    /\ last.op = "ParseTwoDimensions"
    /\ last.args[1] = <<"1", "*", "5">>
    /\ last.err = ""
    /\ last.ret = <<1, 5>>

\* The `number` of the notation: one or more digits.
Digits(t) == t # <<>> /\ \A k \in 1..Len(t) : IsDigit(t[k])

\* The `move` of the notation (lines 20-36): an amount, which is a number
\* or '-' and a number; an axis letter; an index, which is a number; and at
\* most one apostrophe at the end.
InNotation(s) ==
    /\ LetterPlace(s) > 0
    /\ s[LetterPlace(s)] \in {"r", "R", "c", "C"}
    /\ \/ Digits(AmountText(s))
       \/ /\ AmountText(s) # <<>>
          /\ Head(AmountText(s)) = "-"
          /\ Digits(Tail(AmountText(s)))
    /\ Digits(IndexText(s))

\* C18: every input for which ParseMove returns a Move is a move of the
\* notation; none has a '+' in its amount or a sign in its index.
C18_AcceptsOnlyTheNotation ==
    Parsed => InNotation(last.args[1])

\* ParseMove returns for the input s, on the board b, a Move on the line
\* `index` of the axis.
YieldsLine(b, s, axis, index) ==
    LET r == ParseMove(s, b)
    IN  /\ ~r.panic
        /\ r.err = ""
        /\ r.move.Axis = axis
        /\ r.move.Index = index

\* C19: on every board NewBoard returns, each of the rows 0..height-1 and
\* each of the columns 0..width-1 has an input for which ParseMove returns
\* a Move on that line.
C19_EveryLineHasAnInput ==
    (last.op = "NewBoard" /\ last.err = "") =>
        /\ \A y \in 0..(Height(board) - 1) :
               \E s \in ParseInputs : YieldsLine(board, s, HorizontalAxis, y)
        /\ \A x \in 0..(Width(board) - 1) :
               \E s \in ParseInputs : YieldsLine(board, s, VerticalAxis, x)

\* C20: the board a FastShuffle of a solved board leaves is not solved.
C20_FastShuffleScrambles ==
    (last.op = "FastShuffle" /\ pc = "idle") => ~IsSolved(board)
=============================================================================
